---- MODULE Spec2Model ----
(***************************************************************************)
(* Hamlib src/common/rig.c: the capability registry, the RIG handle        *)
(* lifecycle (rig_init / rig_open / rig_close / rig_cleanup), the generic  *)
(* accessors (rig_set_freq ... rig_get_vfo) and the prober (rig_probe).    *)
(*                                                                         *)
(* The program is single threaded.  Every public function is one action;   *)
(* rig_probe is a loop over the registry and takes one step per loop       *)
(* iteration.  The functions are written as operators over a "world"       *)
(* record (the RIG structs, the process's open file descriptors and a      *)
(* crashed flag) so that rig_probe can call the lifecycle functions the    *)
(* way the C code does.  What the collaborators (serial_open, the backend  *)
(* hooks, calloc) answer is an input of the action.                        *)
(***************************************************************************)
EXTENDS Integers, Sequences, FiniteSets, TLC

\* ---------------------------------------------------------------- bounds
MaxRigs == 1          \* heap room: calloc returns NULL when all slots are used
MaxFd   == 4          \* highest file descriptor the process may hold

\* ------------------------------------------------------- program constants
NULL == 0

RIG_OK        == 0
RIG_EINVAL    == 1
RIG_ECONF     == 2
RIG_ENOMEM    == 3
RIG_ENIMPL    == 4
RIG_ETIMEOUT  == 5
RIG_EIO       == 6
RIG_EINTERNAL == 7
RIG_EPROTO    == 8
RIG_ERJCTED   == 9
RIG_ETRUNC    == 10

RIG_PORT_SERIAL  == 0
RIG_PORT_NETWORK == 1

DEFAULT_SERIAL_PORT == "/dev/ttyS0"

\* ------------------------------------------------------------ the registry
\* One capability descriptor.  A hook field is TRUE when the function
\* pointer is non-NULL.
Caps(model, ini, opn, cls, cln, prb, sf, gf, sm, gm, sv, gv, funcs) ==
    [rig_model |-> model,
     rig_init |-> ini, rig_open |-> opn, rig_close |-> cls,
     rig_cleanup |-> cln, rig_probe |-> prb,
     set_freq |-> sf, get_freq |-> gf, set_mode |-> sm, get_mode |-> gm,
     set_vfo |-> sv, get_vfo |-> gv, has_func |-> funcs]

ft747_caps ==
    Caps(101, TRUE, TRUE, TRUE, TRUE, TRUE,
         TRUE, TRUE, TRUE, TRUE, TRUE, TRUE, {0, 2, 31})
ic706_caps ==
    Caps(302, FALSE, FALSE, FALSE, FALSE, FALSE,
         TRUE, FALSE, FALSE, TRUE, FALSE, FALSE, {})
ic706mkiig_caps ==
    Caps(303, TRUE, FALSE, FALSE, TRUE, TRUE,
         FALSE, TRUE, TRUE, FALSE, FALSE, TRUE, {1, 40})

\* The NULL terminated array; index Len(rig_base)+1 is the NULL terminator.
rig_base == <<ft747_caps, ic706_caps, ic706mkiig_caps>>

NBase == Len(rig_base)

\* model numbers a caller may ask for: the registered ones and one that is not
Models == {rig_base[i].rig_model : i \in 1..NBase} \cup {999}

\* ------------------------------------------------------------- RIG structs
HeapRigs  == 1..MaxRigs
StaticRig == MaxRigs + 1      \* a zero filled RIG object owned by the caller
Rigs      == 1..(MaxRigs + 1)

Paths == {DEFAULT_SERIAL_PORT, "/dev/ttyS1"}

\* calloc(1, sizeof(RIG)) / static storage: every field is zero
ZeroRig(a) ==
    [alloc |-> a, caps |-> NULL, port_type |-> 0, rig_path |-> "",
     serial_cfg |-> NULL, fd |-> 0, vfo_comp |-> 0]

StdFds == {0, 1, 2}
FdPool == 0..MaxFd

\* what the collaborators may answer
SerialRets == {0, -RIG_ECONF}
HookRets   == {RIG_OK, -RIG_EPROTO}
ModelRets  == {RIG_OK, -RIG_ERJCTED}
UBOutcomes == {"crash", "continue"}

Res(w, ret, calls) == [w |-> w, ret |-> ret, calls |-> calls]
\* one invocation of a collaborator: which function, on which RIG, with which
\* value argument (0 when it has none), and what it answered
Call(fn, rig, arg, ret) == [fn |-> fn, rig |-> rig, arg |-> arg, ret |-> ret]
\* the "return value" of a call that never returned
NoReturn == -(RIG_ETRUNC + 1)
Crash(w) == [w EXCEPT !.crashed = TRUE]

\* The life stage of a RIG as its caller knows it from the return codes:
\* Initialized after rig_init returned it, Opened after rig_open returned
\* RIG_OK, Closed after rig_close returned RIG_OK, Released after rig_cleanup
\* returned RIG_OK.  The C struct has no such field; this is a history of
\* the calls and no function reads it.
Mark(w, rig, stage) == [w EXCEPT !.life[rig] = stage]

VARIABLES world, probe_i, probe_path, last
vars == <<world, probe_i, probe_path, last>>

\* --------------------------------------------------------------- lookups
\* for (i=0; rig_base[i]; i++) if (rig_base[i]->rig_model == rig_model) break;
\* the index of the first match, NBase+1 (the NULL terminator) when none
\* the scan as it would be if it started at the second entry
RECURSIVE Scan_from_second(_, _)
Scan_from_second(i, rig_model) ==
    IF i > NBase THEN i
    ELSE IF i > 1 /\ rig_base[i].rig_model = rig_model THEN i
    ELSE Scan_from_second(i + 1, rig_model)

RECURSIVE Scan(_, _)
Scan(i, rig_model) ==
    IF i > NBase THEN i
    ELSE IF rig_base[i].rig_model = rig_model THEN i
    ELSE Scan(i + 1, rig_model)

\* rig->caps->hook != NULL.  With rig->caps == NULL the read goes through a
\* null pointer: the caller handles the crash outcome, the surviving outcome
\* reads a null function pointer.
HasHook(r, hook) == IF r.caps = NULL THEN FALSE ELSE rig_base[r.caps][hook]

\* ------------------------------------------------------------- transport
\* serial_open(&rig->state): 0 and a fresh descriptor in state.fd, or an
\* error code and the state untouched.  sres is what the device answers;
\* with the descriptor table full the open fails with -RIG_EIO.
serial_open(w, rig, sres) ==
    LET avail == FdPool \ w.fds
        call(r) == Call("serial_open", rig, 0, r)
    IN  IF sres # 0 THEN Res(w, sres, <<call(sres)>>)
        ELSE IF avail = {} THEN Res(w, -RIG_EIO, <<call(-RIG_EIO)>>)
        ELSE LET fd == CHOOSE f \in avail : \A g \in avail : f <= g
             IN  Res([w EXCEPT !.rigs[rig].fd = fd, !.fds = @ \cup {fd}],
                     0, <<call(0)>>)

\* close(fd)
close(w, fd) == [w EXCEPT !.fds = @ \ {fd}]

\* -------------------------------------------------------------- rig_init
\* mem is what calloc returns: NULL or an unused heap slot.
\* hret is what the backend's rig_init hook returns.
rig_init(w, rig_model, mem, hret) ==
    LET i == Scan(1, rig_model) IN
    IF i > NBase THEN Res(w, NULL, <<>>)
    ELSE IF mem = NULL THEN Res(w, NULL, <<>>)
    ELSE
      LET seeded == [ZeroRig("heap") EXCEPT
                       !.caps = i,
                       !.port_type = RIG_PORT_SERIAL,
                       !.rig_path = DEFAULT_SERIAL_PORT,
                       !.serial_cfg = i,
                       !.vfo_comp = 0]
          hook == rig_base[i].rig_init
          \* the hook's return code is dropped
      IN  Res(Mark([w EXCEPT !.rigs[mem] = seeded], mem, "Initialized"), mem,
              IF hook THEN <<Call("caps.rig_init", mem, 0, hret)>> ELSE <<>>)

\* rig_open as it would be without the switch on the port type
rig_open_any_port(w, rig, sres, hret, ub) ==
    IF rig = NULL THEN Res(w, -RIG_EINVAL, <<>>)
    ELSE
      LET so == serial_open(w, rig, sres) IN
      IF so.ret # 0 THEN Res(so.w, so.ret, so.calls)
      ELSE IF so.w.rigs[rig].caps = NULL /\ ub = "crash"
           THEN Res(Crash(so.w), NoReturn, so.calls)
      ELSE IF HasHook(so.w.rigs[rig], "rig_open")
           THEN Res(Mark(so.w, rig, "Opened"), RIG_OK,
                    so.calls \o <<Call("caps.rig_open", rig, 0, hret)>>)
      ELSE Res(Mark(so.w, rig, "Opened"), RIG_OK, so.calls)

\* rig_open as it would be with the transport's status dropped
rig_open_status_dropped(w, rig, sres, hret, ub) ==
    IF rig = NULL THEN Res(w, -RIG_EINVAL, <<>>)
    ELSE IF w.rigs[rig].port_type = RIG_PORT_SERIAL THEN
      LET so == serial_open(w, rig, sres) IN
      IF so.w.rigs[rig].caps = NULL /\ ub = "crash"
           THEN Res(Crash(so.w), NoReturn, so.calls)
      ELSE IF HasHook(so.w.rigs[rig], "rig_open")
           THEN Res(Mark(so.w, rig, "Opened"), RIG_OK,
                    so.calls \o <<Call("caps.rig_open", rig, 0, hret)>>)
      ELSE Res(Mark(so.w, rig, "Opened"), RIG_OK, so.calls)
    ELSE Res(w, -RIG_ENIMPL, <<>>)

\* -------------------------------------------------------------- rig_open
\* sres: the transport's answer; hret: the backend's rig_open hook's answer;
\* ub: the outcome of reading rig->caps->rig_open through a null rig->caps.
rig_open(w, rig, sres, hret, ub) ==
    IF rig = NULL THEN Res(w, -RIG_EINVAL, <<>>)
    ELSE IF w.rigs[rig].port_type = RIG_PORT_SERIAL THEN
      LET so == serial_open(w, rig, sres) IN
      IF so.ret # 0 THEN Res(so.w, so.ret, so.calls)
      ELSE IF so.w.rigs[rig].caps = NULL /\ ub = "crash"
           THEN Res(Crash(so.w), NoReturn, so.calls)
      ELSE IF HasHook(so.w.rigs[rig], "rig_open")
           THEN Res(Mark(so.w, rig, "Opened"), RIG_OK,
                    so.calls \o <<Call("caps.rig_open", rig, 0, hret)>>)
      ELSE Res(Mark(so.w, rig, "Opened"), RIG_OK, so.calls)
    ELSE Res(w, -RIG_ENIMPL, <<>>)

\* ------------------------------------------------------------- rig_close
rig_close(w, rig, hret, ub) ==
    IF rig = NULL THEN Res(w, -RIG_EINVAL, <<>>)
    ELSE IF w.rigs[rig].caps # NULL THEN Res(w, -RIG_EINVAL, <<>>)
    ELSE IF w.rigs[rig].caps = NULL /\ ub = "crash"
         THEN Res(Crash(w), NoReturn, <<>>)
    ELSE
      LET c1 == IF HasHook(w.rigs[rig], "rig_close")
                THEN <<Call("caps.rig_close", rig, 0, hret)>> ELSE <<>>
          fd == w.rigs[rig].fd
      IN  IF fd # -1
          THEN Res(Mark([close(w, fd) EXCEPT !.rigs[rig].fd = -1],
                        rig, "Closed"),
                   RIG_OK, c1 \o <<Call("close", rig, fd, 0)>>)
          ELSE Res(Mark(w, rig, "Closed"), RIG_OK, c1)

\* ----------------------------------------------------------- rig_cleanup
\* free(rig) of an object that calloc did not return is undefined as well:
\* ub decides between the abort and the silent acceptance.
rig_cleanup(w, rig, hret, ub) ==
    IF rig = NULL THEN Res(w, -RIG_EINVAL, <<>>)
    ELSE IF w.rigs[rig].caps # NULL THEN Res(w, -RIG_EINVAL, <<>>)
    ELSE IF w.rigs[rig].caps = NULL /\ ub = "crash"
         THEN Res(Crash(w), NoReturn, <<>>)
    ELSE
      LET c1 == IF HasHook(w.rigs[rig], "rig_cleanup")
                THEN <<Call("caps.rig_cleanup", rig, 0, hret)>> ELSE <<>>
      IN  Res(Mark([w EXCEPT !.rigs[rig].alloc = "freed"], rig, "Released"),
              RIG_OK,
              c1 \o <<Call("free", rig, 0, 0)>>)

\* ------------------------------------------------------ generic accessors
\* mret is what the backend function returns; dst is the result pointer of a
\* getter (NULL or not).  vfo_comp is kept in hundredths.
Freqs == {7000000, 14000000}
Modes == {1, 2}
Vfos  == {1, 2}
Dsts  == {NULL, 1}

NoCaps(w, rig) == rig = NULL \/ w.rigs[rig].caps = NULL

\* rig_set_freq as it would be without the calibration
rig_set_freq_uncalibrated(w, rig, freq, mret) ==
    IF NoCaps(w, rig) THEN Res(w, -RIG_EINVAL, <<>>)
    ELSE IF ~rig_base[w.rigs[rig].caps].set_freq
         THEN Res(w, -RIG_ENIMPL, <<>>)
    ELSE Res(w, mret, <<Call("caps.set_freq", rig, freq, mret)>>)

\* rig_set_freq as it would be with only the rig pointer checked
rig_set_freq_caps_unchecked(w, rig, freq, mret) ==
    IF rig = NULL THEN Res(w, -RIG_EINVAL, <<>>)
    ELSE IF w.rigs[rig].caps = NULL THEN Res(w, -RIG_ENIMPL, <<>>)
    ELSE
      LET comp == w.rigs[rig].vfo_comp
          f == IF comp # 0 THEN (comp * freq) \div 100 ELSE freq
      IN  IF ~rig_base[w.rigs[rig].caps].set_freq
          THEN Res(w, -RIG_ENIMPL, <<>>)
          ELSE Res(w, mret, <<Call("caps.set_freq", rig, f, mret)>>)

rig_set_freq(w, rig, freq, mret) ==
    IF NoCaps(w, rig) THEN Res(w, -RIG_EINVAL, <<>>)
    ELSE
      LET comp == w.rigs[rig].vfo_comp
          f == IF comp # 0 THEN (comp * freq) \div 100 ELSE freq
      IN  IF ~rig_base[w.rigs[rig].caps].set_freq
          THEN Res(w, -RIG_ENIMPL, <<>>)
          ELSE Res(w, mret, <<Call("caps.set_freq", rig, f, mret)>>)

rig_get_freq(w, rig, dst, mret) ==
    IF NoCaps(w, rig) \/ dst = NULL THEN Res(w, -RIG_EINVAL, <<>>)
    ELSE IF ~rig_base[w.rigs[rig].caps].get_freq
         THEN Res(w, -RIG_ENIMPL, <<>>)
    ELSE Res(w, mret, <<Call("caps.get_freq", rig, 0, mret)>>)

rig_set_mode(w, rig, mode, mret) ==
    IF NoCaps(w, rig) THEN Res(w, -RIG_EINVAL, <<>>)
    ELSE IF ~rig_base[w.rigs[rig].caps].set_mode
         THEN Res(w, -RIG_ENIMPL, <<>>)
    ELSE Res(w, mret, <<Call("caps.set_mode", rig, mode, mret)>>)

\* rig_get_mode as it would be with the backend's result dropped
rig_get_mode_result_dropped(w, rig, dst, mret) ==
    IF NoCaps(w, rig) \/ dst = NULL THEN Res(w, -RIG_EINVAL, <<>>)
    ELSE IF ~rig_base[w.rigs[rig].caps].get_mode
         THEN Res(w, -RIG_ENIMPL, <<>>)
    ELSE Res(w, RIG_OK, <<Call("caps.get_mode", rig, 0, mret)>>)

rig_get_mode(w, rig, dst, mret) ==
    IF NoCaps(w, rig) \/ dst = NULL THEN Res(w, -RIG_EINVAL, <<>>)
    ELSE IF ~rig_base[w.rigs[rig].caps].get_mode
         THEN Res(w, -RIG_ENIMPL, <<>>)
    ELSE Res(w, mret, <<Call("caps.get_mode", rig, 0, mret)>>)

rig_set_vfo(w, rig, vfo, mret) ==
    IF NoCaps(w, rig) THEN Res(w, -RIG_EINVAL, <<>>)
    ELSE IF ~rig_base[w.rigs[rig].caps].set_vfo
         THEN Res(w, -RIG_ENIMPL, <<>>)
    ELSE Res(w, mret, <<Call("caps.set_vfo", rig, vfo, mret)>>)

rig_get_vfo(w, rig, dst, mret) ==
    IF NoCaps(w, rig) \/ dst = NULL THEN Res(w, -RIG_EINVAL, <<>>)
    ELSE IF ~rig_base[w.rigs[rig].caps].get_vfo
         THEN Res(w, -RIG_ENIMPL, <<>>)
    ELSE Res(w, mret, <<Call("caps.get_vfo", rig, 0, mret)>>)

\* ---------------------------------------------------------- rig_has_func
\* An unsigned long is the set of its one bits, an int is an integer.
ULONG_BITS == 64
INT_BITS   == 32

\* the feature flags a caller asks about: single bits of an unsigned long
FlagBits == {b \in {0, 1, 2, 31, 32, 40} : b < ULONG_BITS}
Funcs == {{b} : b \in FlagBits}

\* the value of the int whose one bits are the given ones (two's complement)
RECURSIVE BitSum(_)
BitSum(bits) ==
    IF bits = {} THEN 0
    ELSE LET b == CHOOSE x \in bits : TRUE
         IN  (IF b = INT_BITS - 1 THEN -(2 ^ (b - 1)) - 2 ^ (b - 1) ELSE 2 ^ b)
             + BitSum(bits \ {b})

\* (int) of an unsigned long: the low INT_BITS bits
ToInt(bits) == BitSum({b \in bits : b < INT_BITS})

rig_has_func_untruncated(w, rig, func) ==
    IF NoCaps(w, rig) THEN Res(w, -1, <<>>)
    ELSE Res(w, IF rig_base[w.rigs[rig].caps].has_func \cap func # {}
                THEN 1 ELSE 0, <<>>)

rig_has_func(w, rig, func) ==
    IF NoCaps(w, rig) THEN Res(w, -1, <<>>)
    ELSE Res(w, ToInt(rig_base[w.rigs[rig].caps].has_func \cap func), <<>>)

\* -------------------------------------------------------------- rigerror
rigerror_table ==
    <<"Command completed sucessfully",
      "Invalid parameter",
      "Invalid configuration",
      "Memory shortage",
      "Feature not implemented",
      "Communication timed out",
      "IO error",
      "Internal Hamlib error",
      "Protocol error",
      "Command rejected by the rig",
      "Command performed, but arg truncated, result not guaranteed">>

\* the codes a caller may ask about: the table's, their negatives (what the
\* functions of this file return on error) and one past each end
ErrNums == (-(RIG_ETRUNC + 1))..(RIG_ETRUNC + 1)

\* what a read outside the table yields when it does not crash
OutOfBounds == "<bytes outside rigerror_table>"

\* rigerror_table[errnum], C indices from 0.  Outside the table the read is
\* undefined: ub decides between the crash and some other bytes.
rigerror(w, errnum, ub) ==
    IF errnum >= 0 /\ errnum < Len(rigerror_table)
    THEN Res(w, rigerror_table[errnum + 1], <<>>)
    ELSE IF ub = "crash" THEN Res(Crash(w), OutOfBounds, <<>>)
    ELSE Res(w, OutOfBounds, <<>>)

\* ---------------------------------------------------------- rig_get_caps
\* the result is the index of the descriptor in rig_base, NULL when none
rig_get_caps(w, rig_model) ==
    LET i == Scan(1, rig_model) IN
    IF i > NBase THEN Res(w, NULL, <<>>)
    ELSE Res(w, i, <<Call("printf", NULL, i, 0), Call("printf", NULL, i, 0),
                     Call("printf", NULL, i, 0)>>)

\* ------------------------------------------------------------- rig_probe
\* One iteration of the loop for rig_base[i].  in is the record of what the
\* collaborators answer during the iteration:
\*   mem, hinit    calloc and the rig_init hook (rig_init)
\*   ubpath        the strncpy into a NULL rig's rig_path
\*   sres, hopen   the transport and the rig_open hook (rig_open)
\*   pret          the rig_probe hook
\*   hclose, hcleanup, ub   the hooks and null reads of rig_close/rig_cleanup
\* The result's ret is the RIG returned to the caller, or NoReturn when the
\* iteration returns nothing (the loop goes on, or the process crashed).
\* (below) the loop body as it would be with the probe's answer ignored
rig_probe_body_result_ignored(w, i, port_path, in) ==
    IF ~rig_base[i].rig_probe THEN Res(w, NoReturn, <<>>)
    ELSE
      LET r1  == rig_init(w, rig_base[i].rig_model, in.mem, in.hinit)
          rig == r1.ret
      IN
      IF rig = NULL /\ in.ubpath = "crash"
      THEN Res(Crash(r1.w), NoReturn, r1.calls)
      ELSE
        LET w2 == IF rig = NULL THEN r1.w
                  ELSE [r1.w EXCEPT !.rigs[rig].rig_path = port_path]
            r3 == rig_open(w2, rig, in.sres, in.hopen, in.ub)
            c3 == r1.calls \o r3.calls
        IN
        IF r3.w.crashed THEN Res(r3.w, NoReturn, c3)
        ELSE IF rig # NULL
        THEN Res(r3.w, rig, c3 \o <<Call("caps.rig_probe", rig, 0, in.pret)>>)
        ELSE
          LET c4 == IF rig # NULL
                    THEN c3 \o <<Call("caps.rig_probe", rig, 0, in.pret)>>
                    ELSE c3
              r5 == rig_close(r3.w, rig, in.hclose, in.ub)
          IN  IF r5.w.crashed THEN Res(r5.w, NoReturn, c4 \o r5.calls)
              ELSE LET r6 == rig_cleanup(r5.w, rig, in.hcleanup, in.ub)
                   IN  Res(r6.w, NoReturn, c4 \o r5.calls \o r6.calls)

rig_probe_body(w, i, port_path, in) ==
    IF ~rig_base[i].rig_probe THEN Res(w, NoReturn, <<>>)
    ELSE
      LET r1  == rig_init(w, rig_base[i].rig_model, in.mem, in.hinit)
          rig == r1.ret
      IN
      IF rig = NULL /\ in.ubpath = "crash"
      THEN Res(Crash(r1.w), NoReturn, r1.calls)
      ELSE
        LET w2 == IF rig = NULL THEN r1.w
                  ELSE [r1.w EXCEPT !.rigs[rig].rig_path = port_path]
            r3 == rig_open(w2, rig, in.sres, in.hopen, in.ub)
            c3 == r1.calls \o r3.calls
        IN
        IF r3.w.crashed THEN Res(r3.w, NoReturn, c3)
        ELSE IF rig # NULL /\ in.pret = 0
        THEN Res(r3.w, rig, c3 \o <<Call("caps.rig_probe", rig, 0, in.pret)>>)
        ELSE
          LET c4 == IF rig # NULL
                    THEN c3 \o <<Call("caps.rig_probe", rig, 0, in.pret)>>
                    ELSE c3
              r5 == rig_close(r3.w, rig, in.hclose, in.ub)
          IN  IF r5.w.crashed THEN Res(r5.w, NoReturn, c4 \o r5.calls)
              ELSE LET r6 == rig_cleanup(r5.w, rig, in.hcleanup, in.ub)
                   IN  Res(r6.w, NoReturn, c4 \o r5.calls \o r6.calls)

\* ------------------------------------------------------------ the program
\* what calloc may return: NULL, or the lowest unused heap slot
Callocs(w) ==
    LET free == {r \in HeapRigs : w.rigs[r].alloc = "free"}
    IN  {NULL} \cup {r \in free : \A q \in free : r <= q}

\* the RIG pointers a caller may pass: NULL or an object that is still alive
RigArgs(w) == {NULL} \cup {r \in Rigs : w.rigs[r].alloc \in {"heap", "static"}}

\* what a collaborator may answer when it is asked at all: a hook that the
\* descriptor does not have, or a null read that cannot happen, has one
\* (unused) answer
HookAnswers(caps, hook) ==
    IF caps # NULL /\ rig_base[caps][hook] THEN HookRets ELSE {RIG_OK}
ModelAnswers(w, rig, fn) ==
    IF rig # NULL /\ w.rigs[rig].caps # NULL /\ rig_base[w.rigs[rig].caps][fn]
    THEN ModelRets ELSE {RIG_OK}
CapsOf(w, rig) == IF rig = NULL THEN NULL ELSE w.rigs[rig].caps
NullReads(w, rig) ==
    IF rig # NULL /\ w.rigs[rig].caps = NULL THEN UBOutcomes ELSE {"continue"}

ProbeInputs(w, i) ==
    IF ~rig_base[i].rig_probe
    THEN [mem : {NULL}, hinit : {RIG_OK}, ubpath : {"continue"},
          sres : {0}, hopen : {RIG_OK}, pret : {RIG_OK},
          hclose : {RIG_OK}, hcleanup : {RIG_OK}, ub : {"continue"}]
    ELSE [mem : Callocs(w), hinit : HookAnswers(i, "rig_init"),
          ubpath : UBOutcomes, sres : SerialRets,
          hopen : HookAnswers(i, "rig_open"), pret : HookRets,
          hclose : HookAnswers(i, "rig_close"),
          hcleanup : HookAnswers(i, "rig_cleanup"), ub : {"continue"}]

\* the record of the most recent call: the function, its RIG argument, its
\* value argument (the result pointer for a getter, 0 when it has none), what
\* it returned and which collaborators it invoked, in order
Last(op, rig, arg, r) ==
    [op |-> op, rig |-> rig, arg |-> arg, ret |-> r.ret, calls |-> r.calls]

Idle == ~world.crashed /\ probe_i = 0

Init ==
    /\ world = [rigs |-> [r \in Rigs |-> IF r = StaticRig THEN ZeroRig("static")
                                         ELSE ZeroRig("free")],
                life |-> [r \in Rigs |-> "none"],
                fds |-> StdFds, crashed |-> FALSE]
    /\ probe_i = 0
    /\ probe_path = ""
    /\ last = Last("none", NULL, 0, Res(world, RIG_OK, <<>>))

\* a plain call of one public function: the world and the record of the call
Ret(op, rig, arg, r) ==
    /\ world' = r.w
    /\ last' = Last(op, rig, arg, r)
    /\ UNCHANGED <<probe_i, probe_path>>

Do_rig_init ==
    /\ Idle
    /\ \E m \in Models, mem \in Callocs(world) :
       \E hret \in HookAnswers(IF Scan(1, m) > NBase THEN NULL ELSE Scan(1, m),
                                "rig_init") :
         LET r == rig_init(world, m, mem, hret) IN Ret("rig_init", r.ret, m, r)

Do_rig_open ==
    /\ Idle
    /\ \E rig \in RigArgs(world), sres \in SerialRets :
       \E hret \in HookAnswers(CapsOf(world, rig), "rig_open"),
          ub \in NullReads(world, rig) :
         Ret("rig_open", rig, 0, rig_open(world, rig, sres, hret, ub))

Do_rig_close ==
    /\ Idle
    /\ \E rig \in RigArgs(world) :
       \E hret \in HookAnswers(CapsOf(world, rig), "rig_close"),
          ub \in NullReads(world, rig) :
         Ret("rig_close", rig, 0, rig_close(world, rig, hret, ub))

Do_rig_cleanup ==
    /\ Idle
    /\ \E rig \in RigArgs(world) :
       \E hret \in HookAnswers(CapsOf(world, rig), "rig_cleanup"),
          ub \in NullReads(world, rig) :
         Ret("rig_cleanup", rig, 0, rig_cleanup(world, rig, hret, ub))

Do_rig_set_freq ==
    /\ Idle
    /\ \E rig \in RigArgs(world), freq \in Freqs :
       \E mret \in ModelAnswers(world, rig, "set_freq") :
         Ret("rig_set_freq", rig, freq, rig_set_freq(world, rig, freq, mret))

Do_rig_get_freq ==
    /\ Idle
    /\ \E rig \in RigArgs(world), dst \in Dsts :
       \E mret \in ModelAnswers(world, rig, "get_freq") :
         Ret("rig_get_freq", rig, dst, rig_get_freq(world, rig, dst, mret))

Do_rig_set_mode ==
    /\ Idle
    /\ \E rig \in RigArgs(world), mode \in Modes :
       \E mret \in ModelAnswers(world, rig, "set_mode") :
         Ret("rig_set_mode", rig, mode, rig_set_mode(world, rig, mode, mret))

Do_rig_get_mode ==
    /\ Idle
    /\ \E rig \in RigArgs(world), dst \in Dsts :
       \E mret \in ModelAnswers(world, rig, "get_mode") :
         Ret("rig_get_mode", rig, dst, rig_get_mode(world, rig, dst, mret))

Do_rig_set_vfo ==
    /\ Idle
    /\ \E rig \in RigArgs(world), vfo \in Vfos :
       \E mret \in ModelAnswers(world, rig, "set_vfo") :
         Ret("rig_set_vfo", rig, vfo, rig_set_vfo(world, rig, vfo, mret))

Do_rig_get_vfo ==
    /\ Idle
    /\ \E rig \in RigArgs(world), dst \in Dsts :
       \E mret \in ModelAnswers(world, rig, "get_vfo") :
         Ret("rig_get_vfo", rig, dst, rig_get_vfo(world, rig, dst, mret))

Do_rig_has_func ==
    /\ Idle
    /\ \E rig \in RigArgs(world), func \in Funcs :
         Ret("rig_has_func", rig, CHOOSE b \in func : TRUE,
             rig_has_func(world, rig, func))

Do_rigerror ==
    /\ Idle
    /\ \E errnum \in ErrNums :
       \E ub \in IF errnum >= 0 /\ errnum < Len(rigerror_table)
                  THEN {"continue"} ELSE UBOutcomes :
         Ret("rigerror", NULL, errnum, rigerror(world, errnum, ub))

Do_rig_get_caps ==
    /\ Idle
    /\ \E m \in Models :
         Ret("rig_get_caps", NULL, m, rig_get_caps(world, m))

\* the caller overrides, before opening it, the transport kind or the
\* calibration of a RIG it got from rig_init
OverridePort ==
    /\ Idle
    /\ \E rig \in RigArgs(world) \ {NULL},
          pt \in {RIG_PORT_SERIAL, RIG_PORT_NETWORK} :
         /\ world.rigs[rig].alloc = "heap"
         /\ world.rigs[rig].fd = 0
         /\ world' = [world EXCEPT !.rigs[rig].port_type = pt]
         /\ last' = Last("override", rig, pt, Res(world, RIG_OK, <<>>))
         /\ UNCHANGED <<probe_i, probe_path>>

OverrideComp ==
    /\ Idle
    /\ \E rig \in RigArgs(world) \ {NULL}, comp \in {0, 102} :
         /\ world.rigs[rig].alloc = "heap"
         /\ world.rigs[rig].fd = 0
         /\ world' = [world EXCEPT !.rigs[rig].vfo_comp = comp]
         /\ last' = Last("override", rig, comp, Res(world, RIG_OK, <<>>))
         /\ UNCHANGED <<probe_i, probe_path>>

\* rig_probe(port_path): entry, one loop iteration, and the return NULL
\* after the loop
ProbeCall ==
    /\ Idle
    /\ \E path \in Paths :
         /\ probe_i' = 1
         /\ probe_path' = path
         /\ last' = Last("rig_probe.call", NULL, 0,
                         Res(world, NoReturn, <<>>))
    /\ UNCHANGED world

ProbeStep ==
    /\ ~world.crashed
    /\ probe_i \in 1..NBase
    /\ \E in \in ProbeInputs(world, probe_i) :
         LET r == rig_probe_body(world, probe_i, probe_path, in) IN
         /\ world' = r.w
         /\ probe_i' = IF r.w.crashed THEN probe_i
                       ELSE IF r.ret # NoReturn THEN 0 ELSE probe_i + 1
         /\ last' = Last(IF r.ret # NoReturn THEN "rig_probe.return"
                         ELSE "rig_probe.step", r.ret, probe_i, r)
         /\ probe_path' = IF r.w.crashed \/ r.ret = NoReturn THEN probe_path
                          ELSE ""

ProbeEnd ==
    /\ ~world.crashed
    /\ probe_i = NBase + 1
    /\ probe_i' = 0
    /\ last' = Last("rig_probe.return", NULL, 0, Res(world, NULL, <<>>))
    /\ probe_path' = ""
    /\ UNCHANGED world

\* The lifecycle and the prober.
Next ==
    \/ Do_rig_init
    \/ Do_rig_open
    \/ Do_rig_close
    \/ Do_rig_cleanup
    \/ OverridePort
    \/ ProbeCall
    \/ ProbeStep
    \/ ProbeEnd

Spec == Init /\ [][Next]_vars

\* The accessors.  They leave every RIG as it is, so they are explored in a
\* specification of their own, on the RIGs that rig_init builds, rig_open
\* opens and the caller calibrates.
NextDispatch ==
    \/ Do_rig_init
    \/ Do_rig_open
    \/ OverrideComp
    \/ Do_rig_set_freq
    \/ Do_rig_get_freq
    \/ Do_rig_set_mode
    \/ Do_rig_get_mode
    \/ Do_rig_set_vfo
    \/ Do_rig_get_vfo

SpecDispatch == Init /\ [][NextDispatch]_vars

\* The queries: the registry lookup, the feature test and the error text,
\* on the RIGs that rig_init builds and rig_open opens.
NextQuery ==
    \/ Do_rig_init
    \/ Do_rig_open
    \/ Do_rig_has_func
    \/ Do_rigerror
    \/ Do_rig_get_caps

SpecQuery == Init /\ [][NextQuery]_vars

\* ================================================================ claims
ValidRig(w, r) == r # NULL /\ w.rigs[r].caps # NULL
CallsOf(l, fn) == {k \in DOMAIN l.calls : l.calls[k].fn = fn}
TransportCalls(l) == CallsOf(l, "serial_open") \cup CallsOf(l, "close")
FailedCalls(l, fn) == {k \in CallsOf(l, fn) : l.calls[k].ret # RIG_OK}
LiveRigs(w) == {r \in HeapRigs : w.rigs[r].alloc = "heap"}

\* C1: rig_close on an Opened RIG that has a descriptor returns RIG_OK, runs
\* the descriptor's rig_close hook exactly when there is one, closes the
\* RIG's descriptor, leaves state.fd = -1 and the RIG Closed.
C1_CloseOpenedSucceeds ==
    [][(/\ last'.op = "rig_close"
        /\ ValidRig(world, last'.rig)
        /\ world.life[last'.rig] = "Opened")
       => /\ last'.ret = RIG_OK
          /\ (CallsOf(last', "caps.rig_close") # {})
               = HasHook(world.rigs[last'.rig], "rig_close")
          /\ world.rigs[last'.rig].fd \notin world'.fds
          /\ world'.rigs[last'.rig].fd = -1
          /\ world'.life[last'.rig] = "Closed"]_vars

\* C2: an iteration of rig_probe that does not return its candidate has
\* closed and released it before the next candidate is created: it leaves
\* no RIG allocated and no descriptor open that was not there before.
C2_ProbeLeaksNothing ==
    [][(last'.op = "rig_probe.step" /\ ~world'.crashed)
       => /\ LiveRigs(world') = LiveRigs(world)
          /\ world'.fds = world.fds]_vars

\* C3: rig_open on a RIG that is already Opened fails with -RIG_ECONF and
\* calls neither the transport nor the rig_open hook.
C3_SecondOpenRejected ==
    [][(/\ last'.op = "rig_open"
        /\ ValidRig(world, last'.rig)
        /\ world.life[last'.rig] = "Opened")
       => /\ last'.ret = -RIG_ECONF
          /\ last'.calls = <<>>]_vars

\* C4: rig_close on a RIG that rig_init returned and that was never opened
\* fails with -RIG_ECONF, and calls neither the rig_close hook nor the
\* transport.
C4_CloseNeverOpenedIsConfigError ==
    [][(/\ last'.op = "rig_close"
        /\ ValidRig(world, last'.rig)
        /\ world.life[last'.rig] = "Initialized")
       => /\ last'.ret = -RIG_ECONF
          /\ last'.calls = <<>>]_vars

\* C5: rig_init does no transport I/O, and rig_cleanup on the RIG it
\* returned, never opened, returns RIG_OK, runs the rig_cleanup hook exactly
\* when there is one, frees the RIG and does no transport I/O.
C5_CreateThenReleaseSucceeds ==
    [][/\ last'.op = "rig_init" => TransportCalls(last') = {}
       /\ (/\ last'.op = "rig_cleanup"
           /\ ValidRig(world, last'.rig)
           /\ world.life[last'.rig] = "Initialized")
          => /\ last'.ret = RIG_OK
             /\ (CallsOf(last', "caps.rig_cleanup") # {})
                  = HasHook(world.rigs[last'.rig], "rig_cleanup")
             /\ world'.rigs[last'.rig].alloc = "freed"
             /\ TransportCalls(last') = {}]_vars

\* C6: when the transport open fails inside rig_open, rig_open returns the
\* transport's code as it is, does not call the rig_open hook, and leaves
\* the RIG as it was: same life stage, same state.fd, no descriptor opened.
C6_TransportFailureReturned ==
    [][(/\ last'.op = "rig_open"
        /\ last'.rig # NULL
        /\ FailedCalls(last', "serial_open") # {})
       => /\ Len(last'.calls) = 1
          /\ last'.ret = last'.calls[1].ret
          /\ CallsOf(last', "caps.rig_open") = {}
          /\ world'.life = world.life
          /\ world'.rigs = world.rigs
          /\ world'.fds = world.fds]_vars

C6_Witness ==
    /\ last.op = "rig_open"
    /\ ValidRig(world, last.rig)
    /\ HasHook(world.rigs[last.rig], "rig_open")
    /\ last.ret = -RIG_ECONF
    /\ world.life[last.rig] = "Initialized"
    /\ world.rigs[last.rig].fd \notin world.fds \ StdFds

\* C7: a failing rig_init hook makes rig_init return no RIG, and a failing
\* rig_open hook makes rig_open return the hook's code and leave the RIG
\* not Opened.
C7_HookErrorsPropagate ==
    /\ (last.op = "rig_init" /\ FailedCalls(last, "caps.rig_init") # {})
       => last.ret = NULL
    /\ (last.op = "rig_open" /\ FailedCalls(last, "caps.rig_open") # {})
       => /\ \A k \in FailedCalls(last, "caps.rig_open") :
                last.ret = last.calls[k].ret
          /\ world.life[last.rig] # "Opened"

Setters   == {"rig_set_freq", "rig_set_mode", "rig_set_vfo"}
Getters   == {"rig_get_freq", "rig_get_mode", "rig_get_vfo"}
Accessors == Setters \cup Getters
CapsField(op) ==
    CASE op = "rig_set_freq" -> "set_freq" [] op = "rig_get_freq" -> "get_freq"
      [] op = "rig_set_mode" -> "set_mode" [] op = "rig_get_mode" -> "get_mode"
      [] op = "rig_set_vfo" -> "set_vfo"   [] op = "rig_get_vfo" -> "get_vfo"
BackendCall(op) ==
    CASE op = "rig_set_freq" -> "caps.set_freq"
      [] op = "rig_get_freq" -> "caps.get_freq"
      [] op = "rig_set_mode" -> "caps.set_mode"
      [] op = "rig_get_mode" -> "caps.get_mode"
      [] op = "rig_set_vfo" -> "caps.set_vfo"
      [] op = "rig_get_vfo" -> "caps.get_vfo"

\* what the dispatch contract asks of the last call
Dispatched ==
    IF ~rig_base[world.rigs[last.rig].caps][CapsField(last.op)]
    THEN last.ret = -RIG_ENIMPL /\ last.calls = <<>>
    ELSE /\ Len(last.calls) = 1
         /\ last.calls[1].fn = BackendCall(last.op)
         /\ last.calls[1].rig = last.rig
         /\ last.ret = last.calls[1].ret

\* C9 as stated: every accessor call on a RIG with a descriptor returns
\* -RIG_ENIMPL without a backend call when the descriptor lacks the function,
\* and otherwise calls that function once and returns its code.
C9_DispatchOnValidRig ==
    (last.op \in Accessors /\ ValidRig(world, last.rig)) => Dispatched

\* C9 amended: the same, for the setters and for the getters called with a
\* non-null result pointer.
C9_DispatchWithResultPointer ==
    (/\ last.op \in Accessors
     /\ ValidRig(world, last.rig)
     /\ last.op \in Getters => last.arg # NULL)
    => Dispatched

C9_Witness ==
    /\ last.op = "rig_get_mode"
    /\ ValidRig(world, last.rig)
    /\ last.arg # NULL
    /\ last.ret = -RIG_ERJCTED
    /\ Len(last.calls) = 1

\* C10: an accessor called with a NULL RIG or with a RIG without a
\* descriptor returns -RIG_EINVAL and calls no backend function.
C10_InvalidRigRejected ==
    (last.op \in Accessors /\ ~ValidRig(world, last.rig))
    => last.ret = -RIG_EINVAL /\ last.calls = <<>>

C10_Witness ==
    /\ last.op = "rig_set_freq"
    /\ last.rig = StaticRig
    /\ world.rigs[StaticRig].caps = NULL
    /\ last.ret = -RIG_EINVAL

\* C11: rig_set_freq hands the backend the requested frequency times the
\* RIG's calibration factor (in hundredths, the product cut to a whole
\* number; 1.02 and 14000000 give 14280000) when the factor is not the
\* neutral 0, and the requested frequency itself when it is; a RIG that
\* rig_init has just returned has the neutral factor.
C11_CalibrationApplied ==
    /\ (/\ last.op = "rig_set_freq"
        /\ ValidRig(world, last.rig)
        /\ rig_base[world.rigs[last.rig].caps].set_freq)
       => LET comp == world.rigs[last.rig].vfo_comp
              sent == last.calls[1].arg
          IN  /\ comp = 0 => sent = last.arg
              /\ comp # 0 => /\ 100 * sent <= comp * last.arg
                             /\ comp * last.arg < 100 * (sent + 1)
              /\ (comp = 102 /\ last.arg = 14000000) => sent = 14280000
    /\ (last.op = "rig_init" /\ last.ret # NULL)
       => world.rigs[last.ret].vfo_comp = 0

C11_Witness ==
    /\ last.op = "rig_set_freq"
    /\ ValidRig(world, last.rig)
    /\ world.rigs[last.rig].vfo_comp = 102
    /\ last.arg = 14000000
    /\ Len(last.calls) = 1
    /\ last.calls[1].arg = 14280000

\* C12 as stated: rig_has_func on a RIG with a descriptor is non-zero exactly
\* when the asked bit is set in the descriptor's has_func and is never the
\* error value; on a NULL RIG or a RIG without a descriptor it is the error
\* value -RIG_EINVAL.
C12_HasFuncExact ==
    last.op = "rig_has_func"
    => IF ~ValidRig(world, last.rig) THEN last.ret = -RIG_EINVAL
       ELSE /\ (last.ret # 0)
                 = (last.arg \in rig_base[world.rigs[last.rig].caps].has_func)
            /\ last.ret # -RIG_EINVAL

\* C14 as stated: rigerror returns the table's string for the codes 0..10
\* and, for every other code, a string without reading outside the table.
C14_RigerrorBoundsChecked ==
    last.op = "rigerror"
    => IF last.arg \in RIG_OK..RIG_ETRUNC
       THEN last.ret = rigerror_table[last.arg + 1]
       ELSE ~world.crashed /\ last.ret # OutOfBounds

\* C15: rig_get_caps returns the descriptor whose rig_model is the asked one
\* and NULL for a model that is not registered; a RIG that rig_init returns
\* has that same descriptor, and for a model that is not registered rig_init
\* returns NULL, calls no hook and changes nothing.
Registered == {rig_base[i].rig_model : i \in 1..NBase}

C15_LookupExact ==
    [][/\ last'.op = "rig_get_caps"
          => IF last'.arg \in Registered
             THEN /\ last'.ret \in 1..NBase
                  /\ rig_base[last'.ret].rig_model = last'.arg
             ELSE last'.ret = NULL
       /\ last'.op = "rig_init"
          => IF last'.arg \in Registered
             THEN last'.ret # NULL
                  => /\ world'.rigs[last'.ret].caps \in 1..NBase
                     /\ rig_base[world'.rigs[last'.ret].caps].rig_model
                          = last'.arg
                     /\ world'.rigs[last'.ret].caps
                          = rig_get_caps(world', last'.arg).ret
             ELSE /\ last'.ret = NULL
                  /\ last'.calls = <<>>
                  /\ world' = world]_vars

C15_Witness ==
    /\ last.op = "rig_init"
    /\ last.arg = ic706mkiig_caps.rig_model
    /\ last.ret # NULL
    /\ world.rigs[last.ret].caps = NBase

\* C13: rig_probe goes through rig_base in order from the first entry; an
\* iteration for a descriptor without a rig_probe hook creates nothing and
\* calls nothing; an iteration that goes on to the next descriptor had no
\* successful rig_probe call; and a RIG that is returned has the descriptor
\* of the current entry, whose rig_probe hook was called on it and answered 0.
ProbedOk(l) ==
    {k \in CallsOf(l, "caps.rig_probe") : l.calls[k].ret = RIG_OK}

C13_ProbeReturnsFirstSuccess ==
    [][/\ last'.op = "rig_probe.call" => probe_i' = 1
       /\ last'.op = "rig_probe.step"
          => /\ ProbedOk(last') = {}
             /\ ~world'.crashed => probe_i' = probe_i + 1
             /\ ~rig_base[probe_i].rig_probe
                => world' = world /\ last'.calls = <<>>
       /\ (last'.op = "rig_probe.return" /\ last'.ret # NULL)
          => /\ rig_base[probe_i].rig_probe
             /\ world'.rigs[last'.ret].caps = probe_i
             /\ FailedCalls(last', "caps.rig_probe") = {}
             /\ \E k \in ProbedOk(last') : last'.calls[k].rig = last'.ret]_vars

C13_Witness ==
    /\ last.op = "rig_probe.return"
    /\ last.ret # NULL
    /\ ProbedOk(last) # {}
    /\ rig_base[world.rigs[last.ret].caps].rig_probe

\* C16 as stated: rig_open on a RIG whose port type is not serial returns
\* -RIG_ECONF, calls nothing and changes nothing; and an error that rig_open
\* returns without having called a collaborator is -RIG_EINVAL or -RIG_ECONF.
C16_UnsupportedPortIsConfigError ==
    [][last'.op = "rig_open"
       => /\ (/\ last'.rig # NULL
              /\ world.rigs[last'.rig].port_type # RIG_PORT_SERIAL)
             => /\ last'.ret = -RIG_ECONF
                /\ last'.calls = <<>>
                /\ world' = world
          /\ (last'.calls = <<>> /\ last'.ret \notin {RIG_OK, NoReturn})
             => last'.ret \in {-RIG_EINVAL, -RIG_ECONF}]_vars

\* C16 amended: the same with -RIG_ENIMPL in the place of -RIG_ECONF.
C16_UnsupportedPortIsNotImplemented ==
    [][last'.op = "rig_open"
       => /\ (/\ last'.rig # NULL
              /\ world.rigs[last'.rig].port_type # RIG_PORT_SERIAL)
             => /\ last'.ret = -RIG_ENIMPL
                /\ last'.calls = <<>>
                /\ world' = world
          /\ (last'.calls = <<>> /\ last'.ret \notin {RIG_OK, NoReturn})
             => last'.ret \in {-RIG_EINVAL, -RIG_ENIMPL}]_vars

C16_Witness ==
    /\ last.op = "rig_open"
    /\ ValidRig(world, last.rig)
    /\ world.rigs[last.rig].port_type = RIG_PORT_NETWORK
    /\ last.ret = -RIG_ENIMPL
    /\ world.life[last.rig] = "Initialized"

\* C17 as stated: an accessor called on a RIG that has a descriptor and is
\* not Opened returns -RIG_EINVAL or -RIG_ECONF and calls no backend
\* function.
C17_AccessorsNeedOpened ==
    (/\ last.op \in Accessors
     /\ ValidRig(world, last.rig)
     /\ world.life[last.rig] # "Opened")
    => /\ last.ret \in {-RIG_EINVAL, -RIG_ECONF}
       /\ last.calls = <<>>

\* C18 as stated: an iteration of rig_probe whose rig_init returned NULL
\* does not use the absent RIG; in particular no iteration of rig_probe
\* ends in a crash.
C18_ProbeChecksCreation ==
    last.op = "rig_probe.step" => ~world.crashed

\* C19 as stated: a RIG that rig_probe returns is Opened and has the given
\* port path, and the rig_probe hook is called only after a successful
\* transport open in the same iteration.
C19_ProbedRigIsOpened ==
    [][/\ (last'.op = "rig_probe.return" /\ last'.ret # NULL)
          => /\ world'.life[last'.ret] = "Opened"
             /\ world'.rigs[last'.ret].rig_path = probe_path
       /\ (/\ last'.op \in {"rig_probe.return", "rig_probe.step"}
           /\ CallsOf(last', "caps.rig_probe") # {})
          => \E k \in CallsOf(last', "serial_open") :
                last'.calls[k].ret = 0]_vars

\* C20 as stated: a RIG that is allocated and not Opened has state.fd = -1.
C20_FdAbsentUnlessOpened ==
    \A r \in HeapRigs :
      (world.rigs[r].alloc = "heap" /\ world.life[r] # "Opened")
      => world.rigs[r].fd = -1

====
